---------------------------- MODULE Spec2Model ----------------------------
(***************************************************************************)
(* Model of the genetic optimizer of the AnyLogic parameter search         *)
(* (src/python/genetic_optimizer.py) and of the oracle boundary it calls   *)
(* (src/java_interface.py).  The evolutionary driver, the archive and the  *)
(* selector are the DEAP routines the optimizer registers and calls        *)
(* (eaMuPlusLambda, varOr, cxTwoPoint, ParetoFront.update, selNSGA2);      *)
(* they are modelled by what those routines do.                            *)
(***************************************************************************)
EXTENDS Integers, Sequences, FiniteSets, TLC

VARIABLES
    pc,                 \* position of optimize() in the mu+lambda driver
    gen,                \* generation counter of the driver
    pop,                \* current population (list of individuals)
    offspring,          \* offspring of the generation in progress
    hof,                \* tools.ParetoFront(): the archive, best first
    solution_counter,   \* self.solution_counter
    solution_ids,       \* self.solution_ids: parameter hash -> identifier
    solution_history,   \* self.solution_history: list of solution records
    ret,                \* what the most recent direct call returned (harnesses)
    log,                \* the genomes handed to direct calls, each with its identifier (harnesses)
    calls,              \* number of direct calls made so far (harnesses)
    file                \* the results file written by save_results

vars == <<pc, gen, pop, offspring, hof, solution_counter, solution_ids,
          solution_history, ret, log, calls, file>>

engineVars == <<pc, gen, pop, offspring, hof>>
registryVars == <<solution_counter, solution_ids, solution_history>>

-----------------------------------------------------------------------------
(* Bounds of the model *)

\* mu = lambda_ = self.population_size of the run explored
population_size == 2
\* ngen = self.generations of the run explored
generations == 2
\* number of direct calls a harness makes
MaxCalls == 3

-----------------------------------------------------------------------------
(* Program constants *)

\* float('inf'); -Inf is -float('inf').  Every finite KPI of the model is
\* strictly between the two.
Inf == 1000

NGenes == 8
NObj == 5

\* self.parameter_bounds, in dict (= gene) order
ParamNames ==
    << "varOfWork", "capacityOfMainConveyor", "quantityOfVagonsToSilageAtOnce",
       "quantityOfVehicleDischargeStations", "numberOfVehicleSilages",
       "capacityOfVehicleSilages", "quantityOfSilages", "yearsModelWorking" >>

parameter_bounds ==
    << <<3, 3>>, <<800, 1200>>, <<8, 10>>, <<2, 4>>,
       <<2, 4>>, <<800, 1000>>, <<18, 20>>, <<1, 1>> >>

\* self.objectives / the order of the kpis list
KpiNames ==
    << "vesselsHandledQtt", "primeCost", "handlingTime", "profit", "timeAtTerminal" >>

\* self.objectives, by KPI position
objectives ==
    << "maximize", "minimize", "minimize", "maximize", "minimize" >>

\* weights that take every objective as one to maximize
weights_all_maximize == << 1, 1, 1, 1, 1 >>

\* creator.create("FitnessMulti", base.Fitness, weights=(1.0, -1.0, -1.0, 1.0, -1.0))
weights == << 1, -1, -1, 1, -1 >>

\* the tuple returned when the simulation fails
Sentinel == << -Inf, Inf, Inf, -Inf, Inf >>

\* results.get(name, default): the default of each KPI
KpiDefaults == << 0, Inf, Inf, -Inf, Inf >>

-----------------------------------------------------------------------------
(* Generic helpers *)

Range(s) == { s[i] : i \in DOMAIN s }

RemoveAt(s, i) == SubSeq(s, 1, i - 1) \o SubSeq(s, i + 1, Len(s))

InsertAt(s, i, x) == SubSeq(s, 1, i - 1) \o << x >> \o SubSeq(s, i, Len(s))

-----------------------------------------------------------------------------
(* Fitness: deap.base.Fitness as created at genetic_optimizer.py:63 *)

\* Fitness.setValues: wvalues = values * weights
wvalues(values) == [ i \in 1..NObj |-> values[i] * weights[i] ]

\* Fitness.dominates, on the weighted values: nowhere worse, somewhere better
dominates(a, b) ==
    /\ \A i \in 1..NObj : wvalues(a)[i] >= wvalues(b)[i]
    /\ \E i \in 1..NObj : wvalues(a)[i] > wvalues(b)[i]

RECURSIVE LexLess(_, _, _)
\* tuple comparison of two weighted-value tuples from position i on
LexLess(x, y, i) ==
    IF i > NObj THEN FALSE
    ELSE IF x[i] < y[i] THEN TRUE
    ELSE IF x[i] > y[i] THEN FALSE
    ELSE LexLess(x, y, i + 1)

\* Fitness.__lt__: self.wvalues < other.wvalues
FitLess(a, b) == LexLess(wvalues(a), wvalues(b), 1)

-----------------------------------------------------------------------------
(* Individuals *)

\* creator.Individual: a list of genes with a fitness; fit = << >> is an
\* invalid (not yet assigned) fitness.  obj tells the Python objects apart:
\* two list entries with the same obj are one object (varOr appends a
\* reproduced member itself, not a clone); the deep copies the archive
\* keeps have obj = 0
Individual(g, f, o) == [ genome |-> g, fit |-> f, obj |-> o ]

Valid(ind) == ind.fit # << >>

\* _individual_to_parameters: gene i is the parameter named ParamNames[i];
\* the dict is represented by its values in the order of ParamNames
individual_to_parameters(g) == [ i \in 1..NGenes |-> g[i] ]

-----------------------------------------------------------------------------
(* Solution registry: _get_or_create_solution_id *)

\* hash() of a Python int of small magnitude: the value itself, except that
\* -1 is not a legal hash value and hashes to -2
HashInt(n) == IF n = -1 THEN -2 ELSE n

\* hash(tuple(sorted(parameters.items()))): the parameter names are the same
\* in every call, so the key is decided by the hashes of the values; the
\* combining step of the tuple hash is taken as collision free here
ParamHash(parameters) == [ i \in 1..NGenes |-> HashInt(parameters[i]) ]

Digit(d) == << "0", "1", "2", "3", "4", "5", "6", "7", "8", "9" >>[d + 1]

RECURSIVE Decimal(_)
Decimal(n) == IF n < 10 THEN Digit(n) ELSE Decimal(n \div 10) \o Digit(n % 10)

RECURSIVE DecimalLen(_)
DecimalLen(n) == IF n < 10 THEN 1 ELSE 1 + DecimalLen(n \div 10)

RECURSIVE Zeros(_)
Zeros(k) == IF k <= 0 THEN "" ELSE "0" \o Zeros(k - 1)

\* f"SOL_{n:06d}"
FormatId(n) == "SOL_" \o Zeros(6 - DecimalLen(n)) \o Decimal(n)

\* Python's None, and a value that is not None: the tuple or list of
\* numbers of a "fitness", the number of a "generation"
PyNone == [ none |-> TRUE, values |-> << >> ]
PyValues(v) == [ none |-> FALSE, values |-> v ]

\* the registry as a record, so that the method is a function on it
Registry(c, ids, hist) == [ counter |-> c, ids |-> ids, history |-> hist ]

\* a variant that refreshes the stored KPIs when a genome is seen again
get_or_create_solution_id_refresh(reg, parameters, kpis) ==
    LET h == ParamHash(parameters)
    IN  IF h \notin DOMAIN reg.ids
        THEN LET c  == reg.counter + 1
                 id == FormatId(c)
             IN  Registry(c,
                          [ k \in DOMAIN reg.ids \cup {h} |->
                                IF k = h THEN id ELSE reg.ids[k] ],
                          Append(reg.history,
                                 [ id |-> id, parameters |-> parameters,
                                   kpis |-> kpis, generation |-> PyNone ]))
        ELSE Registry(reg.counter, reg.ids,
                      [ i \in DOMAIN reg.history |->
                            IF reg.history[i].id = reg.ids[h]
                            THEN [ reg.history[i] EXCEPT !.kpis = kpis ]
                            ELSE reg.history[i] ])

\* _get_or_create_solution_id: the registry after the call (the identifier
\* returned is RegistryId below).  A new record has None as its
\* "generation"; its "timestamp", the wall-clock time, is not modelled
get_or_create_solution_id(reg, parameters, kpis) ==
    LET h == ParamHash(parameters)
    IN  IF h \notin DOMAIN reg.ids
        THEN LET c  == reg.counter + 1
                 id == FormatId(c)
             IN  Registry(c,
                          [ k \in DOMAIN reg.ids \cup {h} |->
                                IF k = h THEN id ELSE reg.ids[k] ],
                          Append(reg.history,
                                 [ id |-> id, parameters |-> parameters,
                                   kpis |-> kpis, generation |-> PyNone ]))
        ELSE reg

\* return self.solution_ids[param_hash]
RegistryId(reg, parameters) == reg.ids[ParamHash(parameters)]

-----------------------------------------------------------------------------
(* Oracle boundary: JavaModelInterface.run_simulation *)

\* None, which is also what a JSON null body decodes to
None == [ json |-> "null", kpis |-> << >> ]

\* a decoded JSON object holding the KPIs named in d
DictBody(d) == [ json |-> "dict", kpis |-> d ]

\* a complete KPI mapping with the given values, in the order of KpiNames
Kpis(v) == DictBody([ n \in Range(KpiNames) |->
                        v[CHOOSE i \in 1..NObj : KpiNames[i] = n] ])

\* Three complete answers of the simulation: K1 dominates K2 (same vessels,
\* cheaper, same times, same profit); K3 is incomparable with both.
K1 == << 10, 3, 4, 7, 2 >>
K2 == << 10, 5, 4, 7, 2 >>
K3 == << 8, 2, 4, 7, 2 >>

\* answers that are objects: complete ones, an empty one and one without
\* its "profit" entry
DictBodies ==
    { Kpis(K1), Kpis(K2), Kpis(K3),
      DictBody(<< >>),
      DictBody([ n \in Range(KpiNames) \ {"profit"} |-> 1 ]) }

\* what response.json() can be asked to decode
Bodies ==
    DictBodies \cup
    { None, [ json |-> "list", kpis |-> << >> ],
      [ json |-> "invalid", kpis |-> << >> ] }

\* what requests.post can do: raise Timeout, raise another error, or return
\* a response with a status code and a body
Responses ==
    { [ exc |-> e, status |-> 0, body |-> None ] : e \in {"Timeout", "ConnectionError"} }
    \cup { [ exc |-> "none", status |-> 500, body |-> None ] }
    \cup { [ exc |-> "none", status |-> 200, body |-> b ] : b \in Bodies }

\* run_simulation with its try block only: the exception that leaves it,
\* or the value it returns
run_simulation_try(resp) ==
    IF resp.exc # "none" THEN [ exc |-> resp.exc, value |-> None ]
    ELSE IF resp.status = 200
         THEN IF resp.body.json = "invalid"
              THEN [ exc |-> "JSONDecodeError", value |-> None ]
              ELSE [ exc |-> "none", value |-> resp.body ]
         ELSE [ exc |-> "none", value |-> None ]

\* run_simulation: both except clauses return None
run_simulation(resp) ==
    LET r == run_simulation_try(resp)
    IN  IF r.exc # "none" THEN None ELSE r.value

-----------------------------------------------------------------------------
(* _evaluate_individual *)

\* results.get(name, default)
DictGet(d, name, default) == IF name \in DOMAIN d THEN d[name] ELSE default

\* what one evaluation yields: whether an exception left the method, the
\* tuple returned, the registry afterwards, and the number of calls of
\* run_simulation it made
Evaluation(raised, fit, reg, oracle_calls) ==
    [ raised |-> raised, fit |-> fit, reg |-> reg, oracle_calls |-> oracle_calls ]

\* the try block with a look into the registry first: a genome that has an
\* identifier gets the KPIs stored with it and the oracle is not called
evaluate_try_cached(reg, genome, resp) ==
    LET parameters == individual_to_parameters(genome)
        results    == run_simulation(resp)
        stored     == CHOOSE n \in DOMAIN reg.history :
                         reg.history[n].id = RegistryId(reg, parameters)
    IN  IF ParamHash(parameters) \in DOMAIN reg.ids
        THEN [ exc |-> "none", fit |-> reg.history[stored].kpis, reg |-> reg,
               oracle_calls |-> 0 ]
        ELSE IF results = None
        THEN [ exc |-> "none", fit |-> Sentinel, reg |-> reg, oracle_calls |-> 1 ]
        ELSE IF results.json # "dict"
        THEN [ exc |-> "AttributeError", fit |-> << >>, reg |-> reg, oracle_calls |-> 1 ]
        ELSE LET kpis == [ i \in 1..NObj |->
                             DictGet(results.kpis, KpiNames[i], KpiDefaults[i]) ]
             IN  [ exc |-> "none", fit |-> kpis,
                   reg |-> get_or_create_solution_id(reg, parameters, kpis),
                   oracle_calls |-> 1 ]

\* the try block with a registration of the failures: a genome whose
\* simulation failed is given an identifier, with the failure tuple as
\* its KPIs
evaluate_try_register_failures(reg, genome, resp) ==
    LET parameters == individual_to_parameters(genome)
        results    == run_simulation(resp)
    IN  IF results = None
        THEN [ exc |-> "none", fit |-> Sentinel,
               reg |-> get_or_create_solution_id(reg, parameters, Sentinel),
               oracle_calls |-> 1 ]
        ELSE IF results.json # "dict"
        THEN [ exc |-> "AttributeError", fit |-> << >>, reg |-> reg, oracle_calls |-> 1 ]
        ELSE LET kpis == [ i \in 1..NObj |->
                             DictGet(results.kpis, KpiNames[i], KpiDefaults[i]) ]
             IN  [ exc |-> "none", fit |-> kpis,
                   reg |-> get_or_create_solution_id(reg, parameters, kpis),
                   oracle_calls |-> 1 ]

\* the try block of _evaluate_individual: exc names the exception raised
\* inside it, if any.  run_simulation is called first, whatever the
\* registry holds; the registry is reached only with the KPIs of a
\* mapping it returned
evaluate_try(reg, genome, resp) ==
    LET parameters == individual_to_parameters(genome)
        results    == run_simulation(resp)
    IN  IF results = None
        THEN [ exc |-> "none", fit |-> Sentinel, reg |-> reg, oracle_calls |-> 1 ]
        ELSE IF results.json # "dict"
        THEN \* results.get is not an attribute of a list
             [ exc |-> "AttributeError", fit |-> << >>, reg |-> reg, oracle_calls |-> 1 ]
        ELSE LET kpis == [ i \in 1..NObj |->
                             DictGet(results.kpis, KpiNames[i], KpiDefaults[i]) ]
             IN  [ exc |-> "none", fit |-> kpis,
                   reg |-> get_or_create_solution_id(reg, parameters, kpis),
                   oracle_calls |-> 1 ]

\* a variant without the except clause
evaluate_individual_no_except(reg, genome, resp) ==
    LET t == evaluate_try(reg, genome, resp)
    IN  Evaluation(t.exc # "none", t.fit, t.reg, t.oracle_calls)

\* _evaluate_individual: the except clause turns any exception of the try
\* block into the sentinel
evaluate_individual(reg, genome, resp) ==
    LET t == evaluate_try(reg, genome, resp)
    IN  IF t.exc # "none"
        THEN Evaluation(FALSE, Sentinel, t.reg, t.oracle_calls)
        ELSE Evaluation(FALSE, t.fit, t.reg, t.oracle_calls)

-----------------------------------------------------------------------------
(* Random source *)

\* random.randint(lo, hi): any integer of the closed range
randint(lo, hi) == lo..hi

\* the genes whose draws are explored (quantityOfVagonsToSilageAtOnce); the
\* draws of the other genes are taken at the low end of their range
ExploredGenes == { 3 }

\* toolbox.attr_<name>(): a draw for gene i
attr(i) ==
    IF i \in ExploredGenes
    THEN randint(parameter_bounds[i][1], parameter_bounds[i][2])
    ELSE { parameter_bounds[i][1] }

RECURSIVE InitCycle(_)
\* tools.initCycle over the first k attribute generators
InitCycle(k) ==
    IF k = 0 THEN { << >> }
    ELSE { Append(g, v) : g \in InitCycle(k - 1), v \in attr(k) }

\* toolbox.individual(): the genomes it can return
Genomes == InitCycle(NGenes)

-----------------------------------------------------------------------------
(* Variation: toolbox.mate = tools.cxTwoPoint, toolbox.mutate =             *)
(* _mutate_individual, applied by algorithms.varOr                         *)

\* the pairs of cut points cxTwoPoint can draw for lists of NGenes genes:
\* 1 <= cxpoint1 < cxpoint2 <= NGenes
CutPoints == { c \in (1..NGenes) \X (1..NGenes) : c[1] < c[2] }

\* cxTwoPoint: ind1 after ind1[cx1:cx2], ind2[cx1:cx2] have been swapped
\* (Python slice cx1:cx2 is the positions cx1+1 .. cx2 counted from 1)
cxTwoPoint(g1, g2, c) ==
    [ i \in 1..NGenes |-> IF c[1] < i /\ i <= c[2] THEN g2[i] ELSE g1[i] ]

\* a resampling that reads the bound of the following gene
mutation_draw_next_gene(i) ==
    LET b == parameter_bounds[(i % NGenes) + 1]
    IN  IF i \in ExploredGenes THEN randint(b[1], b[2]) ELSE { b[1] }

\* random.randint(bounds[0], bounds[1]) for gene i, bounds being the entry
\* of parameter_bounds at position i
mutation_draw(i) ==
    LET b == parameter_bounds[i]
    IN  IF i \in ExploredGenes THEN randint(b[1], b[2]) ELSE { b[1] }

RECURSIVE MutateUpTo(_, _)
\* the first k genes after the mutation loop has passed them
MutateUpTo(g, k) ==
    IF k = 0 THEN { << >> }
    ELSE { Append(h, v) : h \in MutateUpTo(g, k - 1),
                          v \in { g[k] } \cup mutation_draw(k) }

\* _mutate_individual: every gene is, independently, kept or resampled
mutate_individual(g) == MutateUpTo(g, NGenes)

-----------------------------------------------------------------------------
(* Archive: tools.ParetoFront, halloffame.update                            *)

RECURSIVE ScanHof(_, _, _, _, _)
\* the loop over the archive members in ParetoFront.update for one
\* individual, from member i on
ScanHof(items, ind, i, dominates_one, to_remove) ==
    IF i > Len(items)
    THEN [ is_dominated |-> FALSE, has_twin |-> FALSE, to_remove |-> to_remove ]
    ELSE IF ~dominates_one /\ dominates(items[i].fit, ind.fit)
    THEN [ is_dominated |-> TRUE, has_twin |-> FALSE, to_remove |-> to_remove ]
    ELSE IF dominates(ind.fit, items[i].fit)
    THEN ScanHof(items, ind, i + 1, TRUE, to_remove \cup {i})
    ELSE IF wvalues(ind.fit) = wvalues(items[i].fit) /\ ind.genome = items[i].genome
    THEN [ is_dominated |-> FALSE, has_twin |-> TRUE, to_remove |-> to_remove ]
    ELSE ScanHof(items, ind, i + 1, dominates_one, to_remove)

\* the members left after self.remove(i) for every i of to_remove
RemoveAll(items, to_remove) ==
    LET keep == { i \in DOMAIN items : i \notin to_remove }
        pos(n) == CHOOSE i \in keep : Cardinality({ j \in keep : j < i }) = n - 1
    IN  [ n \in 1..Cardinality(keep) |-> items[pos(n)] ]

\* HallOfFame.insert: bisect_right on the ascending keys, the members being
\* kept in the reverse (best first) order
HofInsert(items, ind) ==
    LET i == Cardinality({ j \in DOMAIN items : ~FitLess(ind.fit, items[j].fit) })
    IN  InsertAt(items, (Len(items) - i) + 1, Individual(ind.genome, ind.fit, 0))

\* an update that inserts without removing the members the newcomer dominates
HofUpdateOneKeepDominated(items, ind) ==
    LET s == ScanHof(items, ind, 1, FALSE, {})
    IN  IF ~s.is_dominated /\ ~s.has_twin THEN HofInsert(items, ind) ELSE items

\* ParetoFront.update, for one individual
HofUpdateOne(items, ind) ==
    LET s    == ScanHof(items, ind, 1, FALSE, {})
        left == RemoveAll(items, s.to_remove)
    IN  IF ~s.is_dominated /\ ~s.has_twin THEN HofInsert(left, ind) ELSE left

RECURSIVE HofUpdate(_, _, _)
\* ParetoFront.update(population): the individuals in list order, from i on
HofUpdate(items, population, i) ==
    IF i > Len(population) THEN items
    ELSE HofUpdate(HofUpdateOne(items, population[i]), population, i + 1)

-----------------------------------------------------------------------------
(* Selection: toolbox.select = tools.selNSGA2                               *)

\* a finite set of integers as an ascending sequence
AscSeq(S) ==
    [ n \in 1..Cardinality(S) |->
        CHOOSE x \in S : Cardinality({ y \in S : y < x }) = n - 1 ]

RECURSIVE Concat(_, _)
\* the concatenation of the sequences ss[i], ss[i+1], ...
Concat(ss, i) == IF i > Len(ss) THEN << >> ELSE ss[i] \o Concat(ss, i + 1)

RECURSIVE DistinctFits(_, _, _)
\* the keys of map_fit_ind, in the order of their first individual
DistinctFits(inds, i, acc) ==
    IF i > Len(inds) THEN acc
    ELSE DistinctFits(inds, i + 1,
                      IF inds[i].fit \in Range(acc) THEN acc
                      ELSE Append(acc, inds[i].fit))

\* map_fit_ind[fit] for the fitnesses of a front, front by front order
FrontMembers(inds, fits, front) ==
    Concat([ n \in DOMAIN front |->
               SelectSeq(inds, LAMBDA x : x.fit = fits[front[n]]) ], 1)

\* dominated_fits[fits[p]]: filled in ascending order of position
DominatedFits(fits, p) ==
    AscSeq({ d \in DOMAIN fits : dominates(fits[p], fits[d]) })

RECURSIVE Release(_, _, _, _)
\* the two inner loops that build the next front: every fitness dominated
\* by a member of the current front loses one dominator
Release(ds, i, counts, next_front) ==
    IF i > Len(ds) THEN [ counts |-> counts, next_front |-> next_front ]
    ELSE LET d == ds[i]
             c == counts[d] - 1
         IN  Release(ds, i + 1, [ counts EXCEPT ![d] = c ],
                     IF c = 0 THEN Append(next_front, d) ELSE next_front)

RECURSIVE MoreFronts(_, _, _, _, _, _)
\* while pareto_sorted < N: append the next front
MoreFronts(inds, fits, current_front, counts, fronts, N) ==
    IF Len(Concat(fronts, 1)) >= N THEN fronts
    ELSE LET ds == Concat([ n \in DOMAIN current_front |->
                              DominatedFits(fits, current_front[n]) ], 1)
             r  == Release(ds, 1, counts, << >>)
         IN  MoreFronts(inds, fits, r.next_front, r.counts,
                        Append(fronts, FrontMembers(inds, fits, r.next_front)), N)

Min2(a, b) == IF a < b THEN a ELSE b

\* a sorting that compares the raw values, every objective taken as
\* maximized: the individuals no one beats that way, then the others
sortNondominated_unweighted(inds, k) ==
    LET beaten(n) == \E m \in DOMAIN inds :
                        /\ \A i \in 1..NObj : inds[m].fit[i] >= inds[n].fit[i]
                        /\ \E i \in 1..NObj : inds[m].fit[i] > inds[n].fit[i]
        first == SelectSeq([ n \in DOMAIN inds |-> n ], LAMBDA n : ~beaten(n))
        rest  == SelectSeq([ n \in DOMAIN inds |-> n ], LAMBDA n : beaten(n))
    IN  IF rest = << >> THEN << [ n \in DOMAIN first |-> inds[first[n]] ] >>
        ELSE << [ n \in DOMAIN first |-> inds[first[n]] ],
                [ n \in DOMAIN rest |-> inds[rest[n]] ] >>

\* tools.sortNondominated(individuals, k): the fronts, best first, until k
\* individuals are covered
sortNondominated(inds, k) ==
    LET fits   == DistinctFits(inds, 1, << >>)
        counts == [ j \in DOMAIN fits |->
                      Cardinality({ i \in DOMAIN fits : dominates(fits[i], fits[j]) }) ]
        first  == AscSeq({ j \in DOMAIN fits : counts[j] = 0 })
    IN  IF k = 0 THEN << >>
        ELSE MoreFronts(inds, fits, first, counts,
                        << FrontMembers(inds, fits, first) >>,
                        Min2(Len(inds), k))

RECURSIVE StableSort(_, _)
\* list.sort(key=...): ascending, equal keys keep their order; crowd is a
\* sequence of positions, key a function on positions
StableSort(crowd, key) ==
    IF crowd = << >> THEN << >>
    ELSE LET m == CHOOSE n \in DOMAIN crowd :
                    /\ \A j \in DOMAIN crowd : key[crowd[n]] <= key[crowd[j]]
                    /\ \A j \in 1..(n - 1) : key[crowd[j]] # key[crowd[n]]
         IN  << crowd[m] >> \o StableSort(RemoveAt(crowd, m), key)

RECURSIVE ObjectiveRanges(_, _)
\* the product of the non-zero ranges (max - min) of objectives i.. over a front
ObjectiveRanges(front, i) ==
    IF i > NObj THEN 1
    ELSE LET vs == { front[n].fit[i] : n \in DOMAIN front }
             hi == CHOOSE v \in vs : \A w \in vs : w <= v
             lo == CHOOSE v \in vs : \A w \in vs : v <= w
         IN  (IF hi = lo THEN 1 ELSE hi - lo) * ObjectiveRanges(front, i + 1)

RECURSIVE CrowdingFrom(_, _, _, _, _)
\* the loop over the objectives in assignCrowdingDist.  dist[n] is the
\* distance of member n times NObj times the product of the non-zero
\* ranges (an integer); inf[n] says the distance is infinite
CrowdingFrom(front, i, crowd, dist, inf) ==
    IF i > NObj THEN [ dist |-> dist, inf |-> inf ]
    ELSE LET key    == [ n \in DOMAIN front |-> front[n].fit[i] ]
             sorted == StableSort(crowd, key)
             n      == Len(sorted)
             inf2   == [ inf EXCEPT ![sorted[1]] = TRUE, ![sorted[n]] = TRUE ]
             range  == key[sorted[n]] - key[sorted[1]]
             scale  == ObjectiveRanges(front, 1)
             pos(m) == CHOOSE q \in 1..n : sorted[q] = m
             dist2  == [ m \in DOMAIN front |->
                           IF pos(m) = 1 \/ pos(m) = n THEN dist[m]
                           ELSE dist[m] + (key[sorted[pos(m) + 1]] - key[sorted[pos(m) - 1]])
                                          * (scale \div range) ]
         IN  IF range = 0
             THEN CrowdingFrom(front, i + 1, sorted, dist, inf2)
             ELSE CrowdingFrom(front, i + 1, sorted, dist2, inf2)

\* tools.emo.assignCrowdingDist
assignCrowdingDist(front) ==
    CrowdingFrom(front, 1, [ n \in DOMAIN front |-> n ],
                 [ n \in DOMAIN front |-> 0 ], [ n \in DOMAIN front |-> FALSE ])

RECURSIVE SortByCrowding(_, _)
\* sorted(front, key=crowding_dist, reverse=True): descending, equal
\* distances keep their order; order is a sequence of positions
SortByCrowding(order, cd) ==
    IF order = << >> THEN << >>
    ELSE LET Less(a, b) == IF cd.inf[b] THEN ~cd.inf[a]
                           ELSE ~cd.inf[a] /\ cd.dist[a] < cd.dist[b]
             m == CHOOSE n \in DOMAIN order :
                    /\ \A j \in DOMAIN order : ~Less(order[n], order[j])
                    /\ \A j \in 1..(n - 1) : Less(order[j], order[n])
         IN  << order[m] >> \o SortByCrowding(RemoveAt(order, m), cd)

\* a selection that fills up from the last front in the order of the front
selNSGA2_front_order(inds, k) ==
    LET fronts == sortNondominated(inds, k)
        chosen == Concat(SubSeq(fronts, 1, Len(fronts) - 1), 1)
        last   == fronts[Len(fronts)]
        rest   == k - Len(chosen)
    IN  IF rest > 0
        THEN chosen \o [ n \in 1..Min2(rest, Len(last)) |-> last[n] ]
        ELSE chosen

\* a selection that keeps the whole fronts only
selNSGA2_whole_fronts(inds, k) ==
    LET fronts == sortNondominated(inds, k)
    IN  Concat(SubSeq(fronts, 1, Len(fronts) - 1), 1)

\* tools.selNSGA2(individuals, k)
selNSGA2(inds, k) ==
    LET fronts == sortNondominated(inds, k)
        chosen == Concat(SubSeq(fronts, 1, Len(fronts) - 1), 1)
        last   == fronts[Len(fronts)]
        rest   == k - Len(chosen)
        cd     == assignCrowdingDist(last)
        \* crowding_dist is an attribute of the fitness object: an object
        \* that fills several places of the front keeps the distance
        \* assigned to its last place
        place(n) == CHOOSE m \in DOMAIN last :
                       /\ last[m].obj = last[n].obj
                       /\ \A q \in DOMAIN last : last[q].obj = last[n].obj => q <= m
        shared == [ dist |-> [ n \in DOMAIN last |-> cd.dist[place(n)] ],
                    inf  |-> [ n \in DOMAIN last |-> cd.inf[place(n)] ] ]
        order  == SortByCrowding([ n \in DOMAIN last |-> n ], shared)
    IN  IF rest > 0
        THEN chosen \o [ n \in 1..Min2(rest, Len(last)) |-> last[order[n]] ]
        ELSE chosen

-----------------------------------------------------------------------------
(* State shared by the specifications *)

reg == Registry(solution_counter, solution_ids, solution_history)

SetRegistry(r) ==
    /\ solution_counter' = r.counter
    /\ solution_ids' = r.ids
    /\ solution_history' = r.history

\* the registry of a fresh GeneticOptimizer
RegistryInit ==
    /\ solution_counter = 0
    /\ solution_ids = << >>
    /\ solution_history = << >>

\* no run of optimize() in progress
EngineIdle ==
    /\ pc = "idle"
    /\ gen = 0
    /\ pop = << >>
    /\ offspring = << >>
    /\ hof = << >>

NoRet == [ op |-> "none" ]

\* no results file has been written
NoFile == [ exists |-> FALSE ]

\* the identifier the registry holds for a genome, "UNKNOWN" if none
KnownId(r, genome) ==
    IF ParamHash(genome) \in DOMAIN r.ids THEN r.ids[ParamHash(genome)] ELSE "UNKNOWN"

-----------------------------------------------------------------------------
(* SpecEval: _evaluate_individual called directly, on any genome of the     *)
(* parameter space and with any behaviour of the oracle                    *)

InitEval ==
    /\ EngineIdle
    /\ RegistryInit
    /\ ret = NoRet
    /\ log = {}
    /\ file = NoFile
    /\ calls = 0

EvaluateCall ==
    /\ calls < MaxCalls
    /\ \E g \in Genomes, resp \in Responses :
          LET e == evaluate_individual(reg, g, resp)
          IN  /\ SetRegistry(e.reg)
              /\ ret' = [ op |-> "evaluate", genome |-> g, resp |-> resp,
                          raised |-> e.raised, fit |-> e.fit, before |-> reg,
                          oracle_calls |-> e.oracle_calls ]
              /\ log' = { x \in log : x.genome # g }
                          \cup { [ genome |-> g, id |-> KnownId(e.reg, g) ] }
    /\ calls' = calls + 1
    /\ UNCHANGED <<engineVars, file>>

NextEval == EvaluateCall

SpecEval == InitEval /\ [][NextEval]_vars

-----------------------------------------------------------------------------
(* SpecOracle: run_simulation called directly, with the time its request    *)
(* takes.  requests.post(..., timeout=self.timeout) gives up when the       *)
(* connection, or the next data of the response, has been waited for       *)
(* self.timeout; the wait starts anew when the connection is made and      *)
(* each time data arrives.                                                 *)

\* self.timeout, in ticks of the model's clock
timeout == 2

\* number of times data of one response may arrive before it is complete
MaxChunks == 2

\* what requests.post returns once the response is complete
Answers == { r \in Responses : r.exc = "none" }

Pending == ret.op = "run_simulation" /\ ret.phase \in { "connect", "read" }

\* the call has ended: what it was answered, what it returned, and how long
\* it took
Returned(resp) ==
    [ op |-> "run_simulation", phase |-> "returned", resp |-> resp,
      raised |-> FALSE, value |-> run_simulation(resp),
      waited |-> ret.waited, elapsed |-> ret.elapsed, chunks |-> ret.chunks ]

InitOracle == InitEval

\* run_simulation is entered and sends its request
Post ==
    /\ ~Pending
    /\ calls < MaxCalls
    /\ calls' = calls + 1
    /\ ret' = [ op |-> "run_simulation", phase |-> "connect",
                waited |-> 0, elapsed |-> 0, chunks |-> 0 ]
    /\ UNCHANGED <<engineVars, registryVars, log, file>>

\* a tick passes while the request waits
Wait ==
    /\ Pending
    /\ ret.waited < timeout
    /\ ret' = [ ret EXCEPT !.waited = @ + 1, !.elapsed = @ + 1 ]
    /\ UNCHANGED <<engineVars, registryVars, log, calls, file>>

\* the wait has lasted self.timeout: requests raises ConnectTimeout or
\* ReadTimeout, both of them requests.exceptions.Timeout
Expire ==
    /\ Pending
    /\ ret.waited = timeout
    /\ ret' = Returned([ exc |-> "Timeout", status |-> 0, body |-> None ])
    /\ UNCHANGED <<engineVars, registryVars, log, calls, file>>

\* the transport fails
Fail ==
    /\ Pending
    /\ ret.waited < timeout
    /\ ret' = Returned([ exc |-> "ConnectionError", status |-> 0, body |-> None ])
    /\ UNCHANGED <<engineVars, registryVars, log, calls, file>>

\* the server accepts the connection
Connect ==
    /\ Pending
    /\ ret.phase = "connect"
    /\ ret.waited < timeout
    /\ ret' = [ ret EXCEPT !.phase = "read", !.waited = 0 ]
    /\ UNCHANGED <<engineVars, registryVars, log, calls, file>>

\* part of the response arrives
Receive ==
    /\ Pending
    /\ ret.phase = "read"
    /\ ret.waited < timeout
    /\ ret.chunks < MaxChunks
    /\ ret' = [ ret EXCEPT !.waited = 0, !.chunks = @ + 1 ]
    /\ UNCHANGED <<engineVars, registryVars, log, calls, file>>

\* the response is complete
Respond ==
    /\ Pending
    /\ ret.phase = "read"
    /\ ret.waited < timeout
    /\ \E resp \in Answers : ret' = Returned(resp)
    /\ UNCHANGED <<engineVars, registryVars, log, calls, file>>

NextOracle == Post \/ Wait \/ Expire \/ Fail \/ Connect \/ Receive \/ Respond

SpecOracle == InitOracle /\ [][NextOracle]_vars

-----------------------------------------------------------------------------
(* SpecRegistry: _get_or_create_solution_id called directly.  The method    *)
(* takes any mapping of names to integers; the inputs are genomes of the   *)
(* parameter space and two variants of one of them whose first parameter   *)
(* is -1 and -2.                                                           *)

RegistryInputs ==
    Genomes \cup
    { [ i \in 1..NGenes |-> IF i = 1 THEN v ELSE parameter_bounds[i][1] ] :
        v \in { -1, -2 } }

InitRegistry == InitEval

IdentifyCall ==
    /\ calls < MaxCalls
    /\ \E p \in RegistryInputs, k \in { K1, K2 } :
          LET r == get_or_create_solution_id(reg, p, k)
          IN  /\ SetRegistry(r)
              /\ ret' = [ op |-> "identify", parameters |-> p, kpis |-> k,
                          id |-> RegistryId(r, p), before |-> reg ]
              /\ log' = log \cup { [ genome |-> p, id |-> RegistryId(r, p) ] }
    /\ calls' = calls + 1
    /\ UNCHANGED <<engineVars, file>>

NextRegistry == IdentifyCall

SpecRegistry == InitRegistry /\ [][NextRegistry]_vars

-----------------------------------------------------------------------------
(* SpecDominance: Fitness.dominates applied to pairs of fitness vectors     *)

\* the values an objective takes in the pairs compared
ObjectiveValues == { -Inf, 1, 2, Inf }

FitnessSpace == [ 1..NObj -> ObjectiveValues ]

InitDominance ==
    /\ EngineIdle
    /\ RegistryInit
    /\ log = {}
    /\ file = NoFile
    /\ calls = 0
    /\ ret \in { [ op |-> "pair", a |-> a, b |-> b ] :
                    a \in FitnessSpace, b \in { Sentinel, K1, K3 } }

Compare ==
    /\ ret.op = "pair"
    /\ ret' = [ op |-> "dominates", a |-> ret.a, b |-> ret.b,
                ab |-> dominates(ret.a, ret.b), ba |-> dominates(ret.b, ret.a) ]
    /\ UNCHANGED <<engineVars, registryVars, log, calls, file>>

NextDominance == Compare

SpecDominance == InitDominance /\ [][NextDominance]_vars

-----------------------------------------------------------------------------
(* Results file: save_results (json.dump) and load_results (json.load)     *)

\* the entries save_results builds for a list of individuals: the
\* identifier the registry holds for the parameters ("UNKNOWN" if none),
\* the parameters, and fitness.values if the fitness is valid, else None
results_entries(individuals, r) ==
    [ n \in DOMAIN individuals |->
        [ id         |-> KnownId(r, individual_to_parameters(individuals[n].genome)),
          parameters |-> individual_to_parameters(individuals[n].genome),
          fitness    |-> IF Valid(individuals[n])
                         THEN PyValues(individuals[n].fit) ELSE PyNone ] ]

\* the JSON text of a value, by its kind
JsonNull == [ lit |-> "null", val |-> 0 ]
JsonString(str) == [ lit |-> "string", val |-> str ]

\* an encoder that writes the largest finite number in place of an
\* infinity, for which JSON has no literal
JsonNumber_clamped(v) ==
    IF v = Inf THEN [ lit |-> "number", val |-> Inf - 1 ]
    ELSE IF v = -Inf THEN [ lit |-> "number", val |-> 1 - Inf ]
    ELSE [ lit |-> "number", val |-> v ]

\* json.dump of a number, allow_nan left at its default: the infinities
\* are written as the literals Infinity and -Infinity
JsonNumber(v) ==
    IF v = Inf THEN [ lit |-> "Infinity", val |-> 0 ]
    ELSE IF v = -Inf THEN [ lit |-> "-Infinity", val |-> 0 ]
    ELSE [ lit |-> "number", val |-> v ]

\* json.dump of a tuple or list of numbers
JsonArray(v) == [ lit |-> "array", val |-> [ i \in DOMAIN v |-> JsonNumber(v[i]) ] ]

\* json.dump of one entry of "population" or "pareto_front"
JsonEntry(e) ==
    [ id         |-> JsonString(e.id),
      parameters |-> [ name \in Range(ParamNames) |->
                         JsonNumber(e.parameters[CHOOSE i \in 1..NGenes : ParamNames[i] = name]) ],
      fitness    |-> IF e.fitness.none THEN JsonNull ELSE JsonArray(e.fitness.values) ]

\* the file save_results writes: the two lists of entries, and of the
\* registry the identifier and the generation of each record of the
\* solution history and the two counts
save_results(population, pareto_front, r) ==
    [ exists       |-> TRUE,
      population   |-> [ n \in DOMAIN population |->
                           JsonEntry(results_entries(population, r)[n]) ],
      pareto_front |-> [ n \in DOMAIN pareto_front |->
                           JsonEntry(results_entries(pareto_front, r)[n]) ],
      solution_history |->
          [ n \in DOMAIN r.history |->
              [ id         |-> JsonString(r.history[n].id),
                generation |-> IF r.history[n].generation.none THEN JsonNull
                               ELSE JsonNumber(r.history[n].generation.values) ] ],
      total_solutions_evaluated |-> JsonNumber(r.counter),
      unique_solutions |-> JsonNumber(Cardinality(DOMAIN r.ids)) ]

\* json.load of a number
LoadNumber(j) ==
    IF j.lit = "Infinity" THEN Inf
    ELSE IF j.lit = "-Infinity" THEN -Inf
    ELSE j.val

\* json.load of the value of "fitness": None, or a list of numbers
LoadFitness(j) ==
    IF j.lit = "null" THEN PyNone
    ELSE PyValues([ i \in DOMAIN j.val |-> LoadNumber(j.val[i]) ])

\* json.load of one entry
LoadEntry(j) ==
    [ id         |-> j.id.val,
      parameters |-> [ i \in 1..NGenes |-> LoadNumber(j.parameters[ParamNames[i]]) ],
      fitness    |-> LoadFitness(j.fitness) ]

\* load_results: the dictionary read from the file, {} when reading fails
load_results(f) ==
    IF ~f.exists
    THEN [ empty |-> TRUE, population |-> << >>, pareto_front |-> << >> ]
    ELSE [ empty        |-> FALSE,
           population   |-> [ n \in DOMAIN f.population |-> LoadEntry(f.population[n]) ],
           pareto_front |-> [ n \in DOMAIN f.pareto_front |-> LoadEntry(f.pareto_front[n]) ] ]

-----------------------------------------------------------------------------
(* ParetoAnalyzer (src/pareto_analyzer.py): the front extractor            *)

\* the place of a KPI in a stored fitness list: fitness[0] .. fitness[4]
KpiColumn(name) == CHOOSE i \in 1..NObj : KpiNames[i] = name

\* a row of the DataFrame built by extract_pareto_data: the parameters and
\* one column per KPI
Row(parameters, fitness) ==
    [ parameters |-> parameters,
      kpis |-> [ name \in Range(KpiNames) |-> fitness[KpiColumn(name)] ] ]

RECURSIVE RowsFrom(_, _)
\* the loop of extract_pareto_data from entry n on: an entry whose fitness
\* is None or an empty list gives no row
RowsFrom(entries, n) ==
    IF n > Len(entries) THEN << >>
    ELSE IF entries[n].fitness.none \/ entries[n].fitness.values = << >>
    THEN RowsFrom(entries, n + 1)
    ELSE << Row(entries[n].parameters, entries[n].fitness.values) >>
             \o RowsFrom(entries, n + 1)

\* extract_pareto_data(results): the DataFrame of results["pareto_front"]
extract_pareto_data(results) == RowsFrom(results.pareto_front, 1)

\* the objectives argument: a list of column names, or None
GivenObjectives(names) == [ given |-> TRUE, names |-> names ]
NoObjectives == [ given |-> FALSE, names |-> << >> ]

\* if objectives is None: objectives = ["vesselsHandledQtt", "profit"]
DefaultObjectives == << "vesselsHandledQtt", "profit" >>

\* the objectives the extraction works with
ChosenObjectives(arg) == IF arg.given THEN arg.names ELSE DefaultObjectives

\* the columns the extractor maximizes; it minimizes every other column
\* a maximize branch that knows the profit only
Maximized_profit_only == { "profit" }

\* the names for which the maximize branch is taken
Maximized == { "vesselsHandledQtt", "profit" }

\* a variant that minimizes every column
dominates_row_all_minimize(df, j, i, objs) ==
    \A n \in DOMAIN objs :
        ~(df[j].kpis[objs[n]] > df[i].kpis[objs[n]])

\* the flag `dominates` after the loop over the objectives: row j is not
\* worse than row i in any of them
dominates_row(df, j, i, objs) ==
    \A n \in DOMAIN objs :
        IF objs[n] \in Maximized
        THEN ~(df[j].kpis[objs[n]] < df[i].kpis[objs[n]])
        ELSE ~(df[j].kpis[objs[n]] > df[i].kpis[objs[n]])

\* a mask that compares each row with the row before it only
pareto_mask_previous_row(df, objs) ==
    [ i \in DOMAIN df |->
        ~(i > 1 /\ dominates_row(df, i - 1, i, objs)) ]

\* pareto_mask after the two loops: row i is dropped when some other row j
\* leaves the flag set
pareto_mask(df, objs) ==
    [ i \in DOMAIN df |->
        ~\E j \in DOMAIN df : i # j /\ dominates_row(df, j, i, objs) ]

\* identify_pareto_frontier(df, objectives): df[pareto_mask], given by the
\* index labels of the rows kept, in order
identify_pareto_frontier(df, arg) ==
    LET mask == pareto_mask(df, ChosenObjectives(arg))
    IN  AscSeq({ i \in DOMAIN df : mask[i] })

\* df[pareto_mask] as a DataFrame: the rows kept, in their order, addressed
\* by position again
Take(df, labels) == [ n \in DOMAIN labels |-> df[labels[n]] ]

\* generate_comprehensive_report: the file is loaded, the DataFrame
\* extracted, and the front identified over all five KPIs (the plots and
\* the summary files are left out).  failed: the method has logged an
\* error or returned {}, which main reports as "Pareto analysis failed"
generate_comprehensive_report(f) ==
    LET results == load_results(f)
        df      == extract_pareto_data(results)
    IN  IF results.empty \/ df = << >>
        THEN [ op |-> "report", failed |-> TRUE, df |-> df, front |-> << >> ]
        ELSE [ op |-> "report", failed |-> FALSE, df |-> df,
               front |-> identify_pareto_frontier(df, GivenObjectives(KpiNames)) ]

-----------------------------------------------------------------------------
(* SpecPareto: identify_pareto_frontier called directly on a DataFrame     *)

\* number of rows of the largest DataFrame
MaxRows == 4

\* the scored solutions of the DataFrames: they differ in the number of
\* vessels handled and in the prime cost
Scores ==
    { << v, c, 4, 7, 2 >> : v \in { 8, 10 }, c \in { 2, 3, 5, 8 } }

\* row n of a DataFrame has parameters of its own
RowParameters(n) ==
    individual_to_parameters(
        [ i \in 1..NGenes |->
            IF i = 2 THEN parameter_bounds[i][1] + n ELSE parameter_bounds[i][1] ])

Frames ==
    UNION { [ 1..n -> Scores ] : n \in 1..MaxRows }

ObjectiveChoices ==
    { NoObjectives,
      GivenObjectives(<< "primeCost" >>),
      GivenObjectives(<< "vesselsHandledQtt", "primeCost" >>),
      GivenObjectives(KpiNames) }

InitPareto ==
    /\ EngineIdle
    /\ RegistryInit
    /\ log = {}
    /\ file = NoFile
    /\ calls = 0
    /\ \E f \in Frames, o \in ObjectiveChoices :
          ret = [ op |-> "frame",
                  df |-> [ n \in DOMAIN f |-> Row(RowParameters(n), f[n]) ],
                  objectives |-> o ]

Identify ==
    /\ ret.op = "frame"
    /\ ret' = [ op |-> "identify", df |-> ret.df, objectives |-> ret.objectives,
                front |-> identify_pareto_frontier(ret.df, ret.objectives) ]
    /\ UNCHANGED <<engineVars, registryVars, log, calls, file>>

NextPareto == Identify

SpecPareto == InitPareto /\ [][NextPareto]_vars

-----------------------------------------------------------------------------
(* SpecReidentify: identify_pareto_frontier called on a DataFrame and then *)
(* on the DataFrame it returned, with the same objectives                  *)

IdentifyAgain ==
    /\ ret.op = "identify"
    /\ ret' = [ op |-> "identify again", df |-> ret.df, objectives |-> ret.objectives,
                front  |-> ret.front,
                output |-> Take(ret.df, ret.front),
                again  |-> Take(Take(ret.df, ret.front),
                                identify_pareto_frontier(Take(ret.df, ret.front),
                                                         ret.objectives)) ]
    /\ UNCHANGED <<engineVars, registryVars, log, calls, file>>

NextReidentify == Identify \/ IdentifyAgain

SpecReidentify == InitPareto /\ [][NextReidentify]_vars

-----------------------------------------------------------------------------
(* SpecDirections: the places that encode the direction of a KPI, probed   *)
(* one KPI at a time: two results that differ in that KPI only are         *)
(* compared as fitnesses (weights) and as rows of the analyzer, next to    *)
(* the tuple a failed evaluation returns                                   *)

\* a result with value v for KPI i and 1 for the others
OnlyKpi(i, v) == [ n \in 1..NObj |-> IF n = i THEN v ELSE 1 ]

InitDirections ==
    /\ EngineIdle
    /\ RegistryInit
    /\ log = {}
    /\ file = NoFile
    /\ calls = 0
    /\ ret \in { [ op |-> "probe", kpi |-> i, a |-> OnlyKpi(i, x), b |-> OnlyKpi(i, y) ] :
                    i \in 1..NObj, x \in ObjectiveValues, y \in ObjectiveValues }

Probe ==
    /\ ret.op = "probe"
    /\ \E g \in Genomes :
          ret' = [ op |-> "directions", kpi |-> ret.kpi, a |-> ret.a, b |-> ret.b,
                   fitness  |-> dominates(ret.a, ret.b),
                   analyzer |-> dominates_row(<< Row(individual_to_parameters(g), ret.a),
                                                 Row(individual_to_parameters(g), ret.b) >>,
                                              1, 2, KpiNames),
                   failure  |-> evaluate_individual(reg, g,
                                    [ exc |-> "Timeout", status |-> 0, body |-> None ]).fit ]
    /\ UNCHANGED <<engineVars, registryVars, log, calls, file>>

NextDirections == Probe

SpecDirections == InitDirections /\ [][NextDirections]_vars

-----------------------------------------------------------------------------
(* SpecSave: save_results called directly on a population and an archive,  *)
(* and load_results on the file it wrote                                   *)

\* length of the longest list handed to save_results
MaxSaved == 2

\* the individuals of the lists: any explored genome, with no fitness, the
\* sentinel or a complete answer
SavedIndividuals ==
    { Individual(g, f, 0) : g \in Genomes, f \in { << >>, Sentinel, K1 } }

SavedLists ==
    UNION { [ 1..n -> SavedIndividuals ] : n \in 0..MaxSaved }

\* the registries at the time of the call: fresh, or holding the first
\* genome of a list
SavedRegistries(population) ==
    { Registry(0, << >>, << >>) } \cup
    { get_or_create_solution_id(Registry(0, << >>, << >>),
          individual_to_parameters(population[n].genome), K1) :
        n \in DOMAIN population }

InitSave ==
    /\ EngineIdle
    /\ log = {}
    /\ calls = 0
    /\ file = NoFile
    /\ \E population \in SavedLists, pareto_front \in SavedLists :
          /\ Len(pareto_front) <= 1
          /\ ret = [ op |-> "results", population |-> population,
                     pareto_front |-> pareto_front ]
          /\ \E r \in SavedRegistries(population) :
                /\ solution_counter = r.counter
                /\ solution_ids = r.ids
                /\ solution_history = r.history

SaveCall ==
    /\ ret.op = "results"
    /\ file' = save_results(ret.population, ret.pareto_front, reg)
    /\ ret' = [ op |-> "saved",
                population   |-> results_entries(ret.population, reg),
                pareto_front |-> results_entries(ret.pareto_front, reg) ]
    /\ UNCHANGED <<engineVars, registryVars, log, calls>>

LoadCall ==
    /\ ret.op = "saved"
    /\ ret' = [ op |-> "loaded", population |-> ret.population,
                pareto_front |-> ret.pareto_front, results |-> load_results(file) ]
    /\ UNCHANGED <<engineVars, registryVars, log, calls, file>>

NextSave == SaveCall \/ LoadCall

SpecSave == InitSave /\ [][NextSave]_vars

-----------------------------------------------------------------------------
(* SpecConsumers: what main does with an archive once optimize() has       *)
(* returned it: get_best_solutions, save_results, and the report           *)
(* generated from the file                                                 *)

\* sorted(pareto_front, key=values[i])[0], with reverse=True if maximize:
\* the first member with the best value (both sorts are stable)
BestBy(pareto_front, i, maximize) ==
    pareto_front[CHOOSE n \in DOMAIN pareto_front :
                    /\ \A m \in DOMAIN pareto_front :
                           IF maximize
                           THEN pareto_front[m].fit[i] <= pareto_front[n].fit[i]
                           ELSE pareto_front[n].fit[i] <= pareto_front[m].fit[i]
                    /\ \A m \in 1..(n - 1) :
                           pareto_front[m].fit[i] # pareto_front[n].fit[i]]

\* one entry of best_solutions
BestEntry(criterion, ind, r) ==
    [ id         |-> KnownId(r, individual_to_parameters(ind.genome)),
      criterion  |-> criterion,
      parameters |-> individual_to_parameters(ind.genome),
      fitness    |-> ind.fit ]

\* get_best_solutions(pareto_front, n)
get_best_solutions(pareto_front, r, n) ==
    IF pareto_front = << >> THEN << >>
    ELSE SubSeq(<< BestEntry("Best Profit", BestBy(pareto_front, 4, TRUE), r),
                   BestEntry("Most Vessels Handled", BestBy(pareto_front, 1, TRUE), r),
                   BestEntry("Lowest Cost", BestBy(pareto_front, 2, FALSE), r) >>,
                1, Min2(n, 3))

\* the archives handed on: up to MaxSaved evaluated individuals
Archives ==
    UNION { [ 1..n -> { Individual(g, f, 0) : g \in Genomes, f \in { Sentinel, K1, K3 } } ] :
              n \in 0..MaxSaved }

InitConsumers ==
    /\ EngineIdle
    /\ log = {}
    /\ calls = 0
    /\ file = NoFile
    /\ \E pareto_front \in Archives :
          /\ ret = [ op |-> "results", population |-> pareto_front,
                     pareto_front |-> pareto_front ]
          /\ \E r \in SavedRegistries(pareto_front) :
                /\ solution_counter = r.counter
                /\ solution_ids = r.ids
                /\ solution_history = r.history

\* best_solutions = optimizer.get_best_solutions(pareto_front)
BestCall ==
    /\ ret.op = "saved"
    /\ ret' = [ op |-> "best", archive |-> ret.archive,
                best |-> get_best_solutions(ret.archive, reg, 5) ]
    /\ UNCHANGED <<engineVars, registryVars, log, calls, file>>

\* optimizer.save_results(population, pareto_front, results_file)
SaveArchive ==
    /\ ret.op = "results"
    /\ file' = save_results(ret.population, ret.pareto_front, reg)
    /\ ret' = [ op |-> "saved", archive |-> ret.pareto_front ]
    /\ UNCHANGED <<engineVars, registryVars, log, calls>>

\* analyzer.generate_comprehensive_report(results_file, ...), the result
\* kept together with the archive the file was written from
ReportCall ==
    /\ ret.op = "best"
    /\ ret' = [ generate_comprehensive_report(file) EXCEPT !.op = "reported" ]
                 @@ [ archive |-> ret.archive, best |-> ret.best ]
    /\ UNCHANGED <<engineVars, registryVars, log, calls, file>>

NextConsumers == SaveArchive \/ BestCall \/ ReportCall

SpecConsumers == InitConsumers /\ [][NextConsumers]_vars

-----------------------------------------------------------------------------
(* SpecSort: the non-dominated sorting of selNSGA2 applied to a selection  *)
(* pool, population + offspring, asked for mu individuals                  *)

\* the fitness values of the members of a pool
PoolFits == { Sentinel, K1, K2, K3 }

\* the pools: 2 * population_size evaluated individuals, each an object of
\* its own
Pools ==
    { [ n \in 1..(2 * population_size) |-> Individual(CHOOSE g \in Genomes : TRUE, f[n], n) ] :
        f \in [ 1..(2 * population_size) -> PoolFits ] }

InitSort ==
    /\ EngineIdle
    /\ RegistryInit
    /\ log = {}
    /\ calls = 0
    /\ file = NoFile
    /\ \E individuals \in Pools :
          ret = [ op |-> "pool", individuals |-> individuals, k |-> population_size ]

Sort ==
    /\ ret.op = "pool"
    /\ ret' = [ op |-> "fronts", individuals |-> ret.individuals, k |-> ret.k,
                fronts |-> sortNondominated(ret.individuals, ret.k) ]
    /\ UNCHANGED <<engineVars, registryVars, log, calls, file>>

NextSort == Sort

SpecSort == InitSort /\ [][NextSort]_vars

-----------------------------------------------------------------------------
(* SpecSelect: selNSGA2 applied, as the driver applies it, to every pool of *)
(* 2 * population_size evaluated individuals, with k = population_size      *)

\* a fourth complete answer: neither dominates nor is dominated by K1, K2
\* or K3, so that a front can have an inner member
K4 == << 12, 6, 4, 7, 2 >>

SelectFits == { Sentinel, K1, K2, K3, K4 }

SelectPools ==
    { [ n \in 1..(2 * population_size) |-> Individual(<< >>, f[n], n) ] :
        f \in [ 1..(2 * population_size) -> SelectFits ] }

InitSelect ==
    /\ EngineIdle
    /\ RegistryInit
    /\ log = {}
    /\ calls = 0
    /\ file = NoFile
    /\ \E individuals \in SelectPools :
          ret = [ op |-> "pool", individuals |-> individuals, k |-> population_size ]

SelectCall ==
    /\ ret.op = "pool"
    /\ ret' = [ op |-> "selected", individuals |-> ret.individuals, k |-> ret.k,
                chosen |-> selNSGA2(ret.individuals, ret.k) ]
    /\ UNCHANGED <<engineVars, registryVars, log, calls, file>>

NextSelect == SelectCall

SpecSelect == InitSelect /\ [][NextSelect]_vars

-----------------------------------------------------------------------------
(* Spec: optimize(), i.e. algorithms.eaMuPlusLambda with mu = lambda_ =      *)
(* population_size and ngen = generations                                  *)

\* the oracle behaviours explored inside a run: three kinds of failure and
\* two complete answers of which neither dominates the other (a failed
\* individual is the one they dominate)
EngineResponses ==
    { r \in Responses :
        \/ r.exc = "Timeout"
        \/ r.status = 500
        \/ r.status = 200 /\ r.body \in { [ json |-> "list", kpis |-> << >> ],
                                          Kpis(K1), Kpis(K3) } }

\* a driver that evaluates the population in every generation
Batch_population == pop

\* the individuals being evaluated: the population at generation 0, the
\* offspring afterwards
Batch == IF gen = 0 THEN pop ELSE offspring

\* invalid_ind = [ind for ind in ... if not ind.fitness.valid]
Invalid(batch) == { i \in DOMAIN batch : ~Valid(batch[i]) }

Init ==
    /\ pc = "start"
    /\ gen = 0
    /\ pop = << >>
    /\ offspring = << >>
    /\ hof = << >>
    /\ RegistryInit
    /\ ret = NoRet
    /\ log = {}
    /\ file = NoFile
    /\ calls = 0

\* the obj of a clone made by varOr: the members of the population are
\* numbered from 1 in list order, the clones after them
NewObj == Len(pop) + Len(offspring) + 1

\* the same list, its objects numbered by the place of their first entry
Renumber(inds) ==
    [ n \in DOMAIN inds |->
        [ inds[n] EXCEPT !.obj =
            CHOOSE m \in DOMAIN inds :
                /\ inds[m].obj = inds[n].obj
                /\ \A q \in 1..(m - 1) : inds[q].obj # inds[n].obj ] ]

\* pop = self.toolbox.population(n=self.population_size)
Populate ==
    /\ pc = "start"
    /\ \E gs \in [ 1..population_size -> Genomes ] :
          pop' = [ i \in 1..population_size |-> Individual(gs[i], << >>, i) ]
    /\ pc' = "evaluate"
    /\ UNCHANGED <<gen, offspring, hof, registryVars, ret, log, calls, file>>

\* toolbox.evaluate on the next individual without a fitness, and the
\* assignment of the tuple it returns; an exception that leaves
\* toolbox.evaluate leaves eaMuPlusLambda and optimize() too
Evaluate ==
    /\ pc = "evaluate"
    /\ Invalid(Batch) # {}
    /\ LET i == CHOOSE n \in Invalid(Batch) : \A m \in Invalid(Batch) : n <= m
       IN  \E resp \in EngineResponses :
              LET e == evaluate_individual(reg, Batch[i].genome, resp)
              IN  /\ SetRegistry(e.reg)
                  /\ IF e.raised
                     THEN /\ pc' = "raised"
                          /\ UNCHANGED <<pop, offspring>>
                     ELSE /\ pc' = pc
                          /\ IF gen = 0
                             THEN /\ pop' = [ pop EXCEPT ![i].fit = e.fit ]
                                  /\ UNCHANGED offspring
                             ELSE /\ offspring' = [ offspring EXCEPT ![i].fit = e.fit ]
                                  /\ UNCHANGED pop
    /\ UNCHANGED <<gen, hof, ret, log, calls, file>>

\* halloffame.update(population) after the initial evaluation,
\* halloffame.update(offspring) in a generation
UpdateArchive ==
    /\ pc = "evaluate"
    /\ Invalid(Batch) = {}
    /\ hof' = HofUpdate(hof, Batch, 1)
    /\ IF gen = 0
       THEN IF generations >= 1
            THEN gen' = 1 /\ pc' = "vary"
            ELSE gen' = gen /\ pc' = "done"
       ELSE gen' = gen /\ pc' = "select"
    /\ UNCHANGED <<pop, offspring, registryVars, ret, log, calls, file>>

\* one round of the loop of varOr: crossover of two sampled members,
\* mutation of one, or reproduction of one (which keeps its fitness)
Vary ==
    /\ pc = "vary"
    /\ Len(offspring) < population_size
    /\ \/ \E i, j \in DOMAIN pop, c \in CutPoints :
             /\ i # j
             /\ offspring' = Append(offspring,
                    Individual(cxTwoPoint(pop[i].genome, pop[j].genome, c),
                               << >>, NewObj))
       \/ \E i \in DOMAIN pop :
             \E g \in mutate_individual(pop[i].genome) :
                offspring' = Append(offspring, Individual(g, << >>, NewObj))
       \/ \E i \in DOMAIN pop :
             offspring' = Append(offspring, pop[i])
    /\ pc' = IF Len(offspring) + 1 = population_size THEN "evaluate" ELSE "vary"
    /\ UNCHANGED <<gen, pop, hof, registryVars, ret, log, calls, file>>

\* population[:] = toolbox.select(population + offspring, mu), then the
\* next generation or the return of optimize()
Select ==
    /\ pc = "select"
    /\ pop' = Renumber(selNSGA2(pop \o offspring, population_size))
    /\ offspring' = << >>
    /\ IF gen < generations
       THEN gen' = gen + 1 /\ pc' = "vary"
       ELSE gen' = gen /\ pc' = "done"
    /\ UNCHANGED <<hof, registryVars, ret, log, calls, file>>

Next == Populate \/ Evaluate \/ UpdateArchive \/ Vary \/ Select

Spec == Init /\ [][Next]_vars

\* optimize() has neither returned nor been left by an exception: the
\* states in which the driver has a next step (every step of the driver
\* is a total computation on the state it starts from)
Running == pc \in { "start", "evaluate", "vary", "select" }

\* the interpreter keeps executing the driver: weak fairness of Next, with
\* the states where Next can take a step written out as Running
SpecFair == Spec /\ (<>[]Running => []<><<Next>>_vars)

-----------------------------------------------------------------------------
(* SpecMain: main() of src/main_optimizer.py around optimize(): the        *)
(* results are saved and analysed after optimize() has returned, and a     *)
(* KeyboardInterrupt may arrive while it runs                              *)

\* optimizer.save_results(population, pareto_front, results_file)
SaveResults ==
    /\ pc = "done"
    /\ file' = save_results(pop, hof, reg)
    /\ pc' = "saved"
    /\ UNCHANGED <<gen, pop, offspring, hof, registryVars, ret, log, calls>>

\* analyzer.generate_comprehensive_report(results_file, ...)
Report ==
    /\ pc = "saved"
    /\ ret' = generate_comprehensive_report(file)
    /\ pc' = "reported"
    /\ UNCHANGED <<gen, pop, offspring, hof, registryVars, log, calls, file>>

\* generations of the loop that have run to their end when the driver is
\* at generation gen
CompletedGenerations == IF gen >= 1 /\ Running THEN gen - 1 ELSE gen

\* KeyboardInterrupt while optimize() runs: neither _evaluate_individual
\* nor run_simulation catches it (they catch Exception), it leaves
\* eaMuPlusLambda and optimize(), and main logs it in its except clause;
\* no result has been assigned and nothing is saved
Interrupt ==
    /\ Running
    /\ pc' = "interrupted"
    /\ ret' = [ op |-> "interrupt", at |-> pc, completed |-> CompletedGenerations ]
    /\ offspring' = << >>
    /\ UNCHANGED <<gen, pop, hof, registryVars, log, calls, file>>

NextMain == Next \/ SaveResults \/ Report \/ Interrupt

SpecMain == Init /\ [][NextMain]_vars

-----------------------------------------------------------------------------
(* SpecLifecycle: main() of src/main_optimizer.py and the Java process of  *)
(* JavaModelInterface: the start-up, the try block taken as its sequence   *)
(* of calls, each of which may raise, and the finally clause               *)

\* max_attempts of start_java_application
max_attempts == 10

\* the calls of main's try block, in order
BodyCalls == << "GeneticOptimizer", "optimize", "save_results",
               "get_best_solutions", "generate_comprehensive_report" >>

\* main is entered with any combination of --java-app-path and
\* --no-auto-start; java_interface.java_process is None
InitLifecycle ==
    /\ pc = "main"
    /\ gen = 0
    /\ pop = << >>
    /\ offspring = << >>
    /\ hof = << >>
    /\ RegistryInit
    /\ log = {}
    /\ calls = 0
    /\ file = NoFile
    /\ \E path \in BOOLEAN, flag \in BOOLEAN :
          ret = [ op |-> "main", java_app_path |-> path, no_auto_start |-> flag,
                  java_process |-> "none", attempts |-> 0, call |-> 0,
                  exc |-> "none" ]

LifecycleFrame == UNCHANGED <<gen, pop, offspring, hof, registryVars, log, calls, file>>

\* if args["java_app_path"] and not args["no_auto_start"]:
\* start_java_application is entered
StartJava ==
    /\ pc = "main"
    /\ ret.java_app_path /\ ~ret.no_auto_start
    /\ pc' = "mvn"
    /\ UNCHANGED ret
    /\ LifecycleFrame

\* the search for mvn: without it start_java_application returns False and
\* main returns
FindMaven ==
    /\ pc = "mvn"
    /\ \E found \in BOOLEAN : pc' = IF found THEN "popen" ELSE "returned"
    /\ UNCHANGED ret
    /\ LifecycleFrame

\* subprocess.Popen: the process is spawned, or Popen raises and the
\* except clause returns False
Spawn ==
    /\ pc = "popen"
    /\ \/ pc' = "health" /\ ret' = [ ret EXCEPT !.java_process = "running" ]
       \/ pc' = "returned" /\ UNCHANGED ret
    /\ LifecycleFrame

\* one round of the loop over range(max_attempts): a health check that
\* succeeds returns True; one that fails is followed by the sleep, and
\* after the last round by return False, on which main returns
HealthCheck ==
    /\ pc = "health"
    /\ ret.attempts < max_attempts
    /\ \E healthy \in BOOLEAN :
          /\ ret' = [ ret EXCEPT !.attempts = @ + 1 ]
          /\ pc' = IF healthy THEN "try"
                   ELSE IF ret.attempts + 1 = max_attempts THEN "returned"
                   ELSE "health"
    /\ LifecycleFrame

\* KeyboardInterrupt during the start-up: `except Exception` does not
\* catch it and main calls start_java_application outside its try block
InterruptStartup ==
    /\ pc = "health"
    /\ pc' = "returned"
    /\ ret' = [ ret EXCEPT !.exc = "KeyboardInterrupt" ]
    /\ LifecycleFrame

\* elif args["no_auto_start"]: the application must be running already
CheckRunning ==
    /\ pc = "main"
    /\ ret.no_auto_start
    /\ \E healthy \in BOOLEAN : pc' = IF healthy THEN "try" ELSE "returned"
    /\ UNCHANGED ret
    /\ LifecycleFrame

\* neither branch: no path and no flag
SkipStart ==
    /\ pc = "main"
    /\ ~ret.java_app_path /\ ~ret.no_auto_start
    /\ pc' = "try"
    /\ UNCHANGED ret
    /\ LifecycleFrame

\* the next call of the try block returns
BodyCall ==
    /\ pc = "try"
    /\ ret' = [ ret EXCEPT !.call = @ + 1 ]
    /\ pc' = IF ret.call + 1 = Len(BodyCalls) THEN "finally" ELSE "try"
    /\ LifecycleFrame

\* the next call of the try block raises, or the user interrupts it: both
\* except clauses log and fall through to the finally clause
BodyRaises ==
    /\ pc = "try"
    /\ \E e \in { "Exception", "KeyboardInterrupt" } :
          ret' = [ ret EXCEPT !.call = @ + 1, !.exc = e ]
    /\ pc' = "finally"
    /\ LifecycleFrame

\* finally: if args["java_app_path"]: stop_java_application(), which
\* terminates the process if java_process is set
Finally ==
    /\ pc = "finally"
    /\ ret' = IF ret.java_app_path /\ ret.java_process = "running"
              THEN [ ret EXCEPT !.java_process = "terminated" ]
              ELSE ret
    /\ pc' = "returned"
    /\ LifecycleFrame

NextLifecycle ==
    \/ StartJava \/ FindMaven \/ Spawn \/ HealthCheck \/ InterruptStartup
    \/ CheckRunning \/ SkipStart \/ BodyCall \/ BodyRaises \/ Finally

SpecLifecycle == InitLifecycle /\ [][NextLifecycle]_vars

-----------------------------------------------------------------------------
(* CLAIMS *)

\* the oracle call did not yield a KPI mapping: the request raised, the
\* status was not 200, or the body was not a JSON object
OracleFailed(resp) ==
    \/ resp.exc # "none"
    \/ resp.status # 200
    \/ resp.body.json # "dict"

\* C2: whatever the oracle call does, _evaluate_individual raises nothing
\* and returns five values, and when the oracle failed these are the
\* sentinel (-inf, +inf, +inf, -inf, +inf).
C2_EvaluateNeverRaises ==
    ret.op = "evaluate" =>
        /\ ~ret.raised
        /\ Len(ret.fit) = NObj
        /\ (OracleFailed(ret.resp) => ret.fit = Sentinel)

\* C2 witness: a status-200 body that is a list, whose handling raised
\* inside the try block, was answered with the sentinel.
C2_Witness ==
    /\ ret.op = "evaluate"
    /\ ret.resp.exc = "none"
    /\ ret.resp.status = 200
    /\ ret.resp.body.json = "list"
    /\ ~ret.raised
    /\ ret.fit = Sentinel

\* C4: the sentinel is dominated by every fitness vector that has at least
\* one objective value other than the sentinel's, and does not dominate it.
C4_SentinelDominated ==
    ( /\ ret.op = "dominates"
      /\ ret.b = Sentinel
      /\ \E i \in 1..NObj : ret.a[i] # Sentinel[i] )
    => (ret.ab /\ ~ret.ba)

\* C4 witness: a vector whose only valid value is on a minimize objective
\* has been compared with the sentinel and dominates it.
C4_Witness ==
    /\ ret.op = "dominates"
    /\ ret.b = Sentinel
    /\ ret.a = << -Inf, 2, Inf, -Inf, Inf >>
    /\ ret.ab

\* a record of the registry r holds exactly these parameters
Registered(r, p) == \E i \in DOMAIN r.history : r.history[i].parameters = p

\* C7: identifying a genome that is value-equal to a registered one returns
\* the identifier of its record and leaves counter, identifiers and history
\* (parameters and KPIs of every record) as they were.
C7_RepeatLeavesRegistry ==
    ( ret.op = "identify" /\ Registered(ret.before, ret.parameters) )
    => /\ \E i \in DOMAIN ret.before.history :
             /\ ret.before.history[i].parameters = ret.parameters
             /\ ret.before.history[i].id = ret.id
       /\ reg = ret.before

\* C7 witness: a registered genome was identified again with KPIs other
\* than the ones in its record.
C7_Witness ==
    /\ ret.op = "identify"
    /\ \E i \in DOMAIN ret.before.history :
          /\ ret.before.history[i].parameters = ret.parameters
          /\ ret.before.history[i].kpis # ret.kpis

C9_CountEqualsGenomesEvaluated ==
    /\ solution_counter = Cardinality(DOMAIN solution_ids)
    /\ solution_counter = Len(solution_history)
    /\ solution_counter = Cardinality({ x.genome : x \in log })

\* every gene of the genome lies in the closed range parameter_bounds
\* declares for its position
InBounds(g) ==
    \A i \in 1..NGenes :
        parameter_bounds[i][1] <= g[i] /\ g[i] <= parameter_bounds[i][2]

\* C1: every gene of every individual of the population and of the
\* offspring lies within the bound of its own position; the genes with
\* lo = hi (varOfWork, yearsModelWorking) keep that value.
C1_GenesWithinBounds ==
    \A ind \in Range(pop) \cup Range(offspring) :
        /\ InBounds(ind.genome)
        /\ ind.genome[1] = 3
        /\ ind.genome[NGenes] = 1

\* C1 witness: in the second generation, variation has produced an
\* offspring whose genome no member of the population has.
C1_Witness ==
    /\ gen = 2
    /\ \E n \in DOMAIN offspring :
          \A m \in DOMAIN pop : offspring[n].genome # pop[m].genome

\* C3: no member of the archive carries the sentinel fitness.
C3_NoSentinelInArchive ==
    \A n \in DOMAIN hof : hof[n].fit # Sentinel

\* C5: no member of the archive dominates another member.
C5_ArchiveAntichain ==
    \A n, m \in DOMAIN hof : ~dominates(hof[n].fit, hof[m].fit)

\* C5 witness: the first generation's update has just run; the first
\* member of the initial population failed and entered the empty archive,
\* the second got the answer K3, which dominates the sentinel and removed
\* it, an offspring got the answer K1, and the archive now holds K1 and K3.
C5_Witness ==
    /\ pc = "select"
    /\ gen = 1
    /\ pop[1].fit = Sentinel
    /\ pop[2].fit = K3
    /\ \E m \in DOMAIN offspring : offspring[m].fit = K1
    /\ { hof[n].fit : n \in DOMAIN hof } = { K1, K3 }

\* C6: no two members of the archive have the same genome.
C6_NoDuplicateGenomeInArchive ==
    \A n, m \in DOMAIN hof : n # m => hof[n].genome # hof[m].genome

\* C10: after initialization and after every generation the population has
\* exactly population_size members.
C10_PopulationSize ==
    pc # "start" => Len(pop) = population_size

\* C10 witness: the selection of the first generation has been made, from a
\* pool of 2 * population_size, and the second generation is under way.
C10_Witness ==
    /\ pc = "vary"
    /\ gen = 2
    /\ Len(pop) = population_size
    /\ Len(pop \o offspring) = population_size

\* C11: under every pattern of oracle answers and failures a run reaches
\* the return of optimize() and stays there, exactly `generations`
\* generations have then been run, and what it returns is a population of
\* population_size members and the archive.
C11_RunTerminatesAfterG ==
    <>[](/\ pc = "done"
         /\ gen = generations
         /\ Len(pop) = population_size
         /\ \A n \in DOMAIN pop : Valid(pop[n])
         /\ \A n \in DOMAIN hof : Valid(hof[n]))

\* C11 witness: a run has returned after all its generations although
\* every oracle call of the run failed: nothing was ever registered and
\* every member of the population carries the sentinel.
C11_Witness ==
    /\ pc = "done"
    /\ gen = generations
    /\ solution_counter = 0
    /\ \A n \in DOMAIN pop : pop[n].fit = Sentinel

\* the comparison the extractor applies to the ordered pair (j, i) of rows
\* of the DataFrame it was given: it compares a row with the other rows
AppliedDominates(j, i) ==
    /\ i # j
    /\ dominates_row(ret.df, j, i, ChosenObjectives(ret.objectives))

\* C12: the dominance relation the extractor applies is irreflexive and
\* asymmetric over all pairs of rows, rows with identical objective values
\* included: no row dominates itself, and if j dominates i then i does not
\* dominate j.
C12_DominanceIrreflexiveAsymmetric ==
    ret.op = "identify" =>
        \A i, j \in DOMAIN ret.df :
            /\ ~AppliedDominates(i, i)
            /\ AppliedDominates(j, i) => ~AppliedDominates(i, j)

\* x is at least as good as y on every chosen objective and strictly
\* better on at least one (vessels handled and profit are maximized, the
\* other KPIs minimized)
ProperlyDominates(x, y, objs) ==
    LET better(a, b, obj) == IF obj \in Maximized THEN a > b ELSE a < b
    IN  /\ \A n \in DOMAIN objs :
              ~better(y.kpis[objs[n]], x.kpis[objs[n]], objs[n])
        /\ \E n \in DOMAIN objs :
              better(x.kpis[objs[n]], y.kpis[objs[n]], objs[n])

\* the rows of the DataFrame that no row of it properly dominates
NonDominatedRows ==
    { i \in DOMAIN ret.df :
        ~\E j \in DOMAIN ret.df :
            ProperlyDominates(ret.df[j], ret.df[i], ChosenObjectives(ret.objectives)) }

\* C13: identify_pareto_frontier returns exactly the rows that no other row
\* properly dominates; rows with identical objective values that nothing
\* else dominates are all returned.
C13_FrontIsNonDominatedSet ==
    ret.op = "identify" => Range(ret.front) = NonDominatedRows

\* C14: when one row of the DataFrame properly dominates every other row
\* (a tie on one objective and strictly better on another counts), the
\* extracted front is exactly that row.
C14_SingleDominatorIsFront ==
    ret.op = "identify" =>
        \A x \in DOMAIN ret.df :
            (\A y \in DOMAIN ret.df \ { x } :
                ProperlyDominates(ret.df[x], ret.df[y], ChosenObjectives(ret.objectives)))
            => ret.front = << x >>

\* C14 witness: A = (10, 5), B = (8, 3), C = (10, 3) with vessels handled
\* maximized and prime cost minimized; the front extracted is C alone.
C14_Witness ==
    /\ ret.op = "identify"
    /\ ret.objectives = GivenObjectives(<< "vesselsHandledQtt", "primeCost" >>)
    /\ Len(ret.df) = 3
    /\ << ret.df[1].kpis["vesselsHandledQtt"], ret.df[1].kpis["primeCost"] >> = << 10, 5 >>
    /\ << ret.df[2].kpis["vesselsHandledQtt"], ret.df[2].kpis["primeCost"] >> = << 8, 3 >>
    /\ << ret.df[3].kpis["vesselsHandledQtt"], ret.df[3].kpis["primeCost"] >> = << 10, 3 >>
    /\ ret.front = << 3 >>

\* what was written and what was read agree entry by entry in id,
\* parameters and fitness values
SameEntries(written, loaded) ==
    /\ Len(loaded) = Len(written)
    /\ \A n \in DOMAIN written :
          /\ loaded[n].id = written[n].id
          /\ loaded[n].parameters = written[n].parameters
          /\ loaded[n].fitness.none = written[n].fitness.none
          /\ loaded[n].fitness.values = written[n].fitness.values

\* C17: what load_results reads from a file written by save_results has,
\* entry by entry, the id, the parameters and the fitness values that were
\* written, also for entries whose fitness is the infinite sentinel or is
\* not set.
C17_SaveLoadRoundTrip ==
    ret.op = "loaded" =>
        /\ ~ret.results.empty
        /\ SameEntries(ret.population, ret.results.population)
        /\ SameEntries(ret.pareto_front, ret.results.pareto_front)

\* C17 witness: a population read back that held an entry with the
\* sentinel and an entry with no fitness, one of them with an identifier
\* of the registry.
C17_Witness ==
    /\ ret.op = "loaded"
    /\ \E n \in DOMAIN ret.results.population :
          /\ ret.results.population[n].fitness = PyValues(Sentinel)
          /\ ret.results.population[n].id = "SOL_000001"
    /\ \E n \in DOMAIN ret.results.population :
          ret.results.population[n].fitness = PyNone

\* C15: the front the report extracts with all five objectives from the
\* saved final archive has exactly the members of the archive optimize()
\* returned: as many rows as the archive has members, and the same
\* parameters and KPI values, in whatever order.
C15_ExtractedFrontIsArchive ==
    ret.op = "report" =>
        /\ ~ret.failed
        /\ Len(ret.front) = Len(hof)
        /\ { ret.df[ret.front[n]] : n \in DOMAIN ret.front }
             = { Row(individual_to_parameters(hof[n].genome), hof[n].fit) :
                   n \in DOMAIN hof }

\* C18: a run interrupted after at least one generation of the loop has
\* run to its end yields a result: the results file exists, its
\* population is the population selected by the last completed generation
\* and, unless the interrupt came after the archive update of the
\* generation in progress, its archive is the archive of that moment.
C18_InterruptedRunYieldsResult ==
    (pc = "interrupted" /\ ret.completed >= 1) =>
        /\ file.exists
        /\ SameEntries(results_entries(pop, reg), load_results(file).population)
        /\ ret.at # "select" =>
               SameEntries(results_entries(hof, reg), load_results(file).pareto_front)

\* the places (front, position) an individual of the pool takes in the
\* fronts returned
PlacesOf(ind) ==
    { << r, n >> \in (DOMAIN ret.fronts) \X (1..(2 * population_size)) :
        n \in DOMAIN ret.fronts[r] /\ ret.fronts[r][n].obj = ind.obj }

\* front 1 is pairwise non-dominating, and every member of front 2 is
\* dominated by a member of front 1
FrontsRanked ==
    /\ \A a, b \in Range(ret.fronts[1]) : ~dominates(a.fit, b.fit)
    /\ Len(ret.fronts) >= 2 =>
          \A b \in Range(ret.fronts[2]) :
              \E a \in Range(ret.fronts[1]) : dominates(a.fit, b.fit)

\* C16 as stated: the fronts partition the pool (each individual is in
\* exactly one front), front 1 is pairwise non-dominating and every member
\* of front 2 is dominated by a member of front 1.
C16_SortingPartitionsPool ==
    ret.op = "fronts" =>
        /\ \A n \in DOMAIN ret.individuals :
              Cardinality(PlacesOf(ret.individuals[n])) = 1
        /\ FrontsRanked

\* C16 as amended: the sorting is asked for k individuals and stops at the
\* front with which the fronts hold k of them, so each individual is in at
\* most one front, the fronts hold at least k individuals, the fronts
\* before the last hold fewer than k, front 1 is exactly the individuals
\* of the pool that no one dominates, and every member of front 2 is
\* dominated by a member of front 1.
C16_SortingRanksFirstK ==
    ret.op = "fronts" =>
        /\ \A n \in DOMAIN ret.individuals :
              Cardinality(PlacesOf(ret.individuals[n])) <= 1
        /\ Len(Concat(ret.fronts, 1)) >= ret.k
        /\ Len(Concat(SubSeq(ret.fronts, 1, Len(ret.fronts) - 1), 1)) < ret.k
        /\ { a.obj : a \in Range(ret.fronts[1]) }
             = { a.obj : a \in { x \in Range(ret.individuals) :
                     ~\E y \in Range(ret.individuals) : dominates(y.fit, x.fit) } }
        /\ FrontsRanked

\* C16 witness: a pool sorted into two fronts that leaves an individual of
\* the pool, dominated by members of both, in no front.
C16_Witness ==
    /\ ret.op = "fronts"
    /\ Len(ret.fronts) = 2
    /\ \E n \in DOMAIN ret.individuals :
          /\ PlacesOf(ret.individuals[n]) = {}
          /\ \E a \in Range(ret.fronts[2]) : dominates(a.fit, ret.individuals[n].fit)

\* C19: every evaluation calls the oracle once, also for a genome that has
\* an identifier in the registry, and the tuple returned is made of what
\* that call returned (the sentinel if it failed), never of what the
\* registry holds.
C19_EvaluationCallsOracle ==
    ret.op = "evaluate" =>
        /\ ret.oracle_calls = 1
        /\ OracleFailed(ret.resp) => ret.fit = Sentinel
        /\ ~OracleFailed(ret.resp) =>
               \A name \in DOMAIN ret.resp.body.kpis :
                   ret.fit[KpiColumn(name)] = ret.resp.body.kpis[name]

\* C19 witness: a genome that had an identifier with the KPIs K1 is
\* evaluated again, the oracle answers K3, and K3 is returned.
C19_Witness ==
    /\ ret.op = "evaluate"
    /\ KnownId(ret.before, ret.genome) # "UNKNOWN"
    /\ \E n \in DOMAIN ret.before.history :
          /\ ret.before.history[n].parameters = individual_to_parameters(ret.genome)
          /\ ret.before.history[n].kpis = K1
    /\ ret.resp.status = 200
    /\ ret.resp.body = Kpis(K3)
    /\ ret.fit = K3
    /\ ret.oracle_calls = 1

\* C20: the generations run one after the other.  Selection starts only
\* when all population_size offspring of the generation have a fitness;
\* the generation counter moves by one, and only with the step that ends
\* the generation in progress (the selection, or the archive update after
\* the initial evaluation); offspring are made only between that step and
\* the evaluation, from the population it left; the population is
\* written only by the sampling, the initial evaluation and the selection
\* of the generation in progress, and the archive only by its archive
\* update once the whole batch is evaluated.
C20_GenerationsSequential ==
    [][ /\ pc' = "select" =>
              /\ Len(offspring') = population_size
              /\ \A n \in DOMAIN offspring' : Valid(offspring'[n])
        /\ gen' # gen =>
              /\ gen' = gen + 1
              /\ pc' = "vary"
              /\ offspring' = << >>
              /\ pc = "select" \/ (gen = 0 /\ pc = "evaluate" /\ Invalid(pop) = {})
        /\ Len(offspring') > Len(offspring) =>
              /\ pc = "vary"
              /\ gen' = gen
              /\ pop' = pop
              /\ \A n \in DOMAIN pop : Valid(pop[n])
        /\ pop' # pop =>
              \/ pc = "start"
              \/ gen = 0 /\ pc = "evaluate"
              \/ pc = "select"
        /\ hof' # hof =>
              /\ pc = "evaluate"
              /\ \A n \in DOMAIN Batch : Valid(Batch[n])
      ]_vars

\* C20 witness: the selection of generation 1 is about to start: both
\* offspring of the generation are evaluated (one of them failed) and
\* the archive update of the generation has run.
C20_Witness ==
    /\ pc = "select"
    /\ gen = 1
    /\ Len(offspring) = population_size
    /\ \A n \in DOMAIN offspring : Valid(offspring[n])
    /\ \E n \in DOMAIN offspring : offspring[n].fit = Sentinel
    /\ \E n \in DOMAIN offspring : offspring[n].fit = K1
    /\ \E n \in DOMAIN hof : hof[n].fit = K1

\* C21: a call of run_simulation that has ended raised nothing; it
\* returned None if the request timed out, the transport raised an error
\* or the status was not 200; it returned a KPI mapping only for a
\* status-200 response; and it took no longer than the configured timeout.
C21_OracleCallBounded ==
    (ret.op = "run_simulation" /\ ret.phase = "returned") =>
        /\ ~ret.raised
        /\ (ret.resp.exc # "none" \/ ret.resp.status # 200) => ret.value = None
        /\ ret.value.json = "dict" => (ret.resp.exc = "none" /\ ret.resp.status = 200)
        /\ ret.elapsed <= timeout

RECURSIVE FrontRank(_, _)
\* the rank of the front of individual n of a pool: 1 if no one dominates
\* it, otherwise one more than the highest rank among those that do
FrontRank(pool, n) ==
    LET D  == { m \in DOMAIN pool : dominates(pool[m].fit, pool[n].fit) }
        rs == { FrontRank(pool, m) : m \in D }
    IN  IF D = {} THEN 1 ELSE 1 + CHOOSE r \in rs : \A q \in rs : q <= r

\* C22: the selection keeps mu individuals of the pool, each once; every
\* individual it keeps has a front rank no higher than any individual it
\* discards; and in the front that is cut, no discarded member has a
\* greater crowding distance than a kept one.
C22_SelectionByRankThenCrowding ==
    ret.op = "selected" =>
        LET pool   == ret.individuals
            kept   == { ret.chosen[n].obj : n \in DOMAIN ret.chosen }
            fronts == sortNondominated(pool, ret.k)
            last   == fronts[Len(fronts)]
            cd     == assignCrowdingDist(last)
            Greater(a, b) == IF cd.inf[a] THEN ~cd.inf[b]
                             ELSE ~cd.inf[b] /\ cd.dist[a] > cd.dist[b]
        IN  /\ Len(ret.chosen) = ret.k
            /\ Cardinality(kept) = ret.k
            /\ \A n \in DOMAIN ret.chosen : ret.chosen[n] = pool[ret.chosen[n].obj]
            /\ \A i \in kept, j \in DOMAIN pool \ kept :
                   FrontRank(pool, i) <= FrontRank(pool, j)
            /\ \A a, b \in DOMAIN last :
                   (last[a].obj \in kept /\ last[b].obj \notin kept) => ~Greater(b, a)

\* C22 witness: the first front has three members and mu is 2; the member
\* between the two others (K1, by vessels and by cost) is discarded, the
\* two outer ones are kept, and the individual of the second front is
\* discarded.
C22_Witness ==
    /\ ret.op = "selected"
    /\ \A n \in 1..(2 * population_size - 4) : ret.individuals[n].fit = Sentinel
    /\ ret.individuals[2 * population_size - 3].fit = K1
    /\ ret.individuals[2 * population_size - 2].fit = K3
    /\ ret.individuals[2 * population_size - 1].fit = K4
    /\ ret.individuals[2 * population_size].fit = K2
    /\ K3 \in { ret.chosen[n].fit : n \in DOMAIN ret.chosen }
    /\ K4 \in { ret.chosen[n].fit : n \in DOMAIN ret.chosen }
    /\ K2 \notin { ret.chosen[n].fit : n \in DOMAIN ret.chosen }

\* C23: a record that enters solution_history while generation g is being
\* evaluated (g = 0 for the initial population) carries g as its
\* generation, every record keeps the generation it has, and the results
\* file holds that number in the record's "generation".
C23_RecordsCarryGeneration ==
    [][ /\ \A i \in DOMAIN solution_history' :
              IF i \in DOMAIN solution_history
              THEN solution_history'[i].generation = solution_history[i].generation
              ELSE /\ ~solution_history'[i].generation.none
                   /\ solution_history'[i].generation.values = gen
        /\ file'.exists =>
              /\ Len(file'.solution_history) = Len(solution_history')
              /\ \A i \in DOMAIN solution_history' :
                     /\ ~solution_history'[i].generation.none
                     /\ file'.solution_history[i].generation =
                            JsonNumber(solution_history'[i].generation.values)
      ]_vars

\* C24: an empty archive is a valid result for its consumers:
\* get_best_solutions returns the empty list for it, and the report
\* generated from the file saved with it is not a failure.
C24_EmptyArchiveHandled ==
    /\ (ret.op \in { "best", "reported" } /\ ret.archive = << >>) => ret.best = << >>
    /\ (ret.op = "reported" /\ ret.archive = << >>) => ~ret.failed

\* C25: an evaluation whose oracle call failed leaves solution_counter,
\* solution_ids and solution_history as they were, and an evaluation that
\* gives a genome its identifier is one whose oracle call returned a
\* mapping.
C25_FailureLeavesRegistry ==
    ret.op = "evaluate" =>
        LET h == ParamHash(individual_to_parameters(ret.genome))
        IN  /\ OracleFailed(ret.resp) => reg = ret.before
            /\ (h \notin DOMAIN ret.before.ids /\ h \in DOMAIN solution_ids)
                   => ~OracleFailed(ret.resp)

\* C25 witness: with one genome registered, the evaluation of another
\* genome failed on a non-200 status; that genome has no identifier and
\* the registry still holds the one record.
C25_Witness ==
    /\ ret.op = "evaluate"
    /\ ret.resp.exc = "none"
    /\ ret.resp.status = 500
    /\ ret.before.counter = 1
    /\ ParamHash(individual_to_parameters(ret.genome)) \notin DOMAIN ret.before.ids
    /\ KnownId(reg, ret.genome) = "UNKNOWN"
    /\ Len(solution_history) = 1

\* C26: every entry of "population" and "pareto_front" in the results file
\* carries the identifier the registry holds for its parameters, which is
\* the id of a record of solution_history, and never "UNKNOWN".
C26_SavedEntriesIdentified ==
    file.exists =>
        \A list \in { file.population, file.pareto_front } :
            \A n \in DOMAIN list :
                LET e == LoadEntry(list[n])
                IN  /\ e.id # "UNKNOWN"
                    /\ ParamHash(e.parameters) \in DOMAIN solution_ids
                    /\ e.id = solution_ids[ParamHash(e.parameters)]
                    /\ \E i \in DOMAIN solution_history :
                           solution_history[i].id = e.id

\* C27: when main has returned, a Java process that start_java_application
\* spawned has been terminated, whichever way main came to return.
C27_JavaProcessStopped ==
    pc = "returned" => ret.java_process # "running"

\* C28: each KPI has one direction in all four places.  With "better"
\* read from the objectives map: the weight at the KPI's position is 1
\* for maximize and -1 for minimize; of two results that differ in that
\* KPI only, one dominates the other as a fitness exactly when its value
\* is better; the analyzer's flag is set for it exactly when its value is
\* not worse; and the value a failed evaluation returns at that position
\* is better than no value.
C28_DirectionsAgree ==
    ret.op = "directions" =>
        LET i == ret.kpi
            Better(x, y) == IF objectives[i] = "maximize" THEN x > y ELSE x < y
        IN  /\ weights[i] = IF objectives[i] = "maximize" THEN 1 ELSE -1
            /\ ret.fitness <=> Better(ret.a[i], ret.b[i])
            /\ ret.analyzer <=> ~Better(ret.b[i], ret.a[i])
            /\ ~Better(ret.failure[i], ret.a[i])
            /\ ret.failure[i] \in { Inf, -Inf }

\* C28 witness: two results that differ in primeCost only, 1 against 2,
\* have been probed; the cheaper one dominates as a fitness, the
\* analyzer's flag is set for it, and the failed evaluation has +inf there.
C28_Witness ==
    /\ ret.op = "directions"
    /\ ret.kpi = 2
    /\ ret.a[2] = 1
    /\ ret.b[2] = 2
    /\ ret.fitness
    /\ ret.analyzer
    /\ ret.failure[2] = Inf

\* C29: when the oracle answers status 200 with a mapping, every KPI the
\* mapping omits has in the returned tuple the value the failure sentinel
\* has at that position, so that a mapping without any KPI gives the
\* sentinel.
C29_MissingKpiIsWorst ==
    ( /\ ret.op = "evaluate"
      /\ ret.resp.exc = "none"
      /\ ret.resp.status = 200
      /\ ret.resp.body.json = "dict" )
    => /\ \A i \in 1..NObj :
             KpiNames[i] \notin DOMAIN ret.resp.body.kpis => ret.fit[i] = Sentinel[i]
       /\ DOMAIN ret.resp.body.kpis = {} => ret.fit = Sentinel

\* C30: identify_pareto_frontier only filters and is idempotent: the rows
\* it returns are rows of its input, in their order, each at most once and
\* with the values it had; applied to its own output with the same
\* objectives it returns that output.
C30_FrontierIdempotent ==
    ret.op = "identify again" =>
        /\ \A n \in DOMAIN ret.front : ret.front[n] \in DOMAIN ret.df
        /\ \A n, m \in DOMAIN ret.front : n < m => ret.front[n] < ret.front[m]
        /\ Len(ret.output) = Len(ret.front)
        /\ \A n \in DOMAIN ret.output : ret.output[n] = ret.df[ret.front[n]]
        /\ ret.again = ret.output

\* C30 witness: of four rows the first call kept two and dropped two, and
\* the second call, on those two, kept both.
C30_Witness ==
    /\ ret.op = "identify again"
    /\ Len(ret.df) = 4
    /\ Len(ret.output) = 2
    /\ ret.output[1] # ret.output[2]
    /\ ret.again = ret.output

=============================================================================
